---- MODULE Spec2Model ----
(***************************************************************************)
(* The disk log consumer task of the write-ahead log                       *)
(* (DiskLogConsumerTask) with its collaborators: the serializer that       *)
(* produces filled buffers, the threads that force a flush and the thread  *)
(* that terminates the task.  One action per statement group of the code   *)
(* that other threads can observe, so that every interleaving the          *)
(* properties speak about is a behaviour of the model.                     *)
(***************************************************************************)
EXTENDS Integers, Sequences, FiniteSets, TLC

\* ------------------------------------------------------------- bounds
\* buffers created at startup and pre-enqueued on the empty queue
NumBuffers == 2
\* filled entries the serializer produces in one run
MaxEntries == 2
\* bytes staged in one filled buffer
MaxBytes == 1
\* callbacks attached to one filled entry
MaxCallbacks == 2
\* threads that call force_flush(), once each
NumFlushers == 2
\* persist_threshold_, a constructor parameter: small, so that two drained
\* buffers cross it
PersistThreshold == 1

\* GroupExpression::SetLocalHashTable: distinct output property sets (as values),
\* costs offered, length of an input-properties list, calls in one run
NumOutputProps == 2
MaxCost == 3
MaxInputs == 1
MaxCalls == 3

Buffers == 1..NumBuffers
OutputProps == 1..NumOutputProps
Costs == 1..MaxCost
Flushers == 1..NumFlushers

VARIABLES
  \* ---- DiskLogConsumerTask members
  run_task_,              \* bool
  do_persist_,            \* bool
  persist_lock_,          \* TRUE while the consumer holds the mutex
  filled_buffer_queue_,   \* FIFO of SerializedLogs (buffer, callbacks)
  empty_buffer_queue_,    \* FIFO of buffers
  buffers_,               \* staged (unflushed) bytes of each LogBuffer
  commit_callbacks_,      \* pending callbacks
  current_data_written_,  \* bytes written since the last persist
  \* ---- the consumer thread
  cons_pc,                \* position in RunTask / DiskLogConsumerTaskLoop
  exited,                 \* the do-while loop has been left (lines 105-107)
  logs,                   \* local of WriteBuffersToLogFile
  timeout,                \* local of the loop body (line 81)
  iter_fsyncs,            \* calls of Persist() since the loop condition was last evaluated
  iter_carried,           \* callbacks that were pending when the running iteration began
  records,                \* what RecordConsumerData was called with, in order
  \* ---- GroupExpression (optimizer)
  lowest_cost_table_,     \* output properties -> (cost, input properties), keyed by value
  next_object,            \* PropertySet objects allocated so far; they are numbered 1, 2, ...
  deleted,                \* PropertySet objects on which delete was called
  heap_state,             \* "ok", or what an undefined delete has led to
  hash_calls,             \* calls of SetLocalHashTable so far
  hash_offered,           \* per output property set: the costs offered for it
  hash_last,              \* the last call: its arguments and what it did
  lost_nodes,             \* nodes of lowest_cost_table_ whose key object was freed: no lookup finds them
  metrics_enabled,        \* the thread has a metrics store with the logging component enabled
  num_buffers,            \* local of the loop (line 48): callbacks persisted, not yet reported
  num_bytes,              \* local of the loop (line 48): bytes persisted, not yet reported
  cons_notified,          \* a notification of disk_log_writer_thread_cv_ reached the waiting consumer
  \* ---- the serializer (producer)
  prod_pc, prod_buf, prod_cbs,
  produced,               \* produced[id] = bytes and callbacks of entry id
  \* ---- force-flush callers
  flush_pc, flush_notified,
  \* ---- the terminating thread
  term_pc,
  term_early,             \* Terminate() was called before RunTask had set run_task_
  \* ---- the log file and the observations the properties are stated on
  file,                   \* bytes handed to the OS, in order
  flushed,                \* ids of the entries flushed, in order
  durable,                \* ids of the entries flushed before a completed fsync
  step_synced,            \* entries covered by the fsync of the running persist step
  invoked,                \* callbacks invoked, in order, each with what that fsync covered
  enqueued,               \* ids in the order of their Enqueue on the filled queue
  enq_phase,              \* for each Enqueue, in order, what the shutdown had reached
  observed,               \* per flusher: ids on the filled queue when its call began
  fresh,                  \* per flusher: progress of a persist step begun after its flag
  final_done              \* what the code after the loop has done

vars == <<run_task_, do_persist_, persist_lock_, filled_buffer_queue_, empty_buffer_queue_,
          buffers_, commit_callbacks_, current_data_written_, cons_pc, exited, logs, timeout,
          cons_notified, prod_pc, prod_buf, prod_cbs, produced,
          flush_pc, flush_notified, term_pc, term_early, file, flushed, durable, step_synced,
          invoked, enqueued, enq_phase, observed, fresh,
          final_done, iter_fsyncs, iter_carried, num_bytes, num_buffers, metrics_enabled,
          records, lowest_cost_table_, next_object, deleted, heap_state, hash_calls,
          hash_offered, hash_last, lost_nodes>>

\* ------------------------------------------------------------- helpers
NoLogs == [id |-> 0, buf |-> 0, cbs |-> <<>>]

Range(s) == {s[i] : i \in 1..Len(s)}

\* bytes and callbacks of entry id are tagged with the id, so that the file and
\* the invocation order can be compared with the enqueue order
BytesOf(id, n) == [j \in 1..n |-> <<id, j>>]
CallbacksOf(id, m) == [i \in 1..m |-> <<id, i>>]

RECURSIVE ConcatBytes(_)
ConcatBytes(ids) ==
  IF ids = <<>> THEN <<>> ELSE produced[Head(ids)].bytes \o ConcatBytes(Tail(ids))

RECURSIVE ConcatCallbacks(_)
ConcatCallbacks(ids) ==
  IF ids = <<>> THEN <<>> ELSE produced[Head(ids)].cbs \o ConcatCallbacks(Tail(ids))

IsPrefix(s, t) == Len(s) <= Len(t) /\ SubSeq(t, 1, Len(s)) = s

Count(s, x) == Cardinality({i \in 1..Len(s) : s[i] = x})

\* the callbacks invoked so far, in order
InvokedCallbacks == [i \in 1..Len(invoked) |-> invoked[i].cb]

\* how far the shutdown has got: "running" until Terminate() is called, "stopping"
\* until the drain after the loop has found the filled queue empty, "drained" until
\* the thread has ended, then "ended"
ShutdownPhase ==
  IF cons_pc = "terminated" THEN "ended"
  ELSE IF final_done.drained THEN "drained"
  ELSE IF term_pc # "idle" THEN "stopping"
  ELSE "running"

EnqueuedIn(phases) == {enqueued[i] : i \in {j \in 1..Len(enqueued) : enq_phase[j] \in phases}}

\* the wake predicate of wait_for
WakePredicate == do_persist_ \/ filled_buffer_queue_ # <<>> \/ ~run_task_

\* faulty variant of PersistCondition: the elapsed time is not looked at
PersistConditionNoTimeout(t) ==
  current_data_written_ > PersistThreshold \/ do_persist_ \/ ~run_task_

\* faulty variant of PersistCondition: the byte threshold is not looked at
PersistConditionNoThreshold(t) == t \/ do_persist_ \/ ~run_task_

\* the condition of the if that guards the persist (line 83); t is line 81's
\* now - last_persist > persist_interval_
PersistCondition(t) ==
  t \/ current_data_written_ > PersistThreshold \/ do_persist_ \/ ~run_task_

\* a pointer value that refers to no PropertySet object
NoObject == 0

\* a key that lowest_cost_table_ does not hold
NoEntry == [present |-> FALSE, cost |-> 0, inputs |-> <<>>, key |-> 0]

NoCall == [called |-> FALSE, key |-> 0, cost |-> 0, passed |-> <<>>, found |-> FALSE,
           replaced |-> FALSE, stored_before |-> <<>>, freed |-> <<>>,
           undefined |-> FALSE]

Init ==
  /\ run_task_ = FALSE
  /\ do_persist_ = FALSE
  /\ persist_lock_ = FALSE
  /\ filled_buffer_queue_ = <<>>
  /\ empty_buffer_queue_ = [b \in Buffers |-> b]
  /\ buffers_ = [b \in Buffers |-> <<>>]
  /\ commit_callbacks_ = <<>>
  /\ current_data_written_ = 0
  /\ cons_pc = "created"
  /\ exited = FALSE
  /\ logs = NoLogs
  /\ timeout = FALSE
  /\ cons_notified = FALSE
  /\ prod_pc = "idle"
  /\ prod_buf = 0
  /\ prod_cbs = <<>>
  /\ produced = <<>>
  /\ flush_pc = [f \in Flushers |-> "idle"]
  /\ flush_notified = [f \in Flushers |-> FALSE]
  /\ term_pc = "idle"
  /\ term_early = FALSE
  /\ file = <<>>
  /\ flushed = <<>>
  /\ durable = {}
  /\ step_synced = {}
  /\ invoked = <<>>
  /\ enqueued = <<>>
  /\ enq_phase = <<>>
  /\ observed = [f \in Flushers |-> {}]
  /\ fresh = [f \in Flushers |-> "none"]
  /\ final_done = [drained |-> FALSE, persisted |-> FALSE]
  /\ iter_fsyncs = 0
  /\ iter_carried = 0
  /\ num_bytes = 0
  /\ num_buffers = 0
  /\ metrics_enabled = FALSE
  /\ records = <<>>
  /\ lowest_cost_table_ = [k \in OutputProps |-> NoEntry]
  /\ next_object = 0
  /\ deleted = {}
  /\ heap_state = "ok"
  /\ hash_calls = 0
  /\ hash_offered = [k \in OutputProps |-> {}]
  /\ hash_last = NoCall
  /\ lost_nodes = {}

\* ------------------------------------------------------------- the consumer
\* RunTask, line 9
RunTask ==
  /\ cons_pc = "created"
  /\ run_task_' = TRUE
  /\ cons_pc' = "init"
  /\ UNCHANGED <<do_persist_, persist_lock_, filled_buffer_queue_, empty_buffer_queue_,
                 buffers_, commit_callbacks_, current_data_written_, exited, logs,
                 timeout, cons_notified, prod_pc, prod_buf, prod_cbs, produced,
                 flush_pc, flush_notified, term_pc, term_early, file, flushed, durable,
                 step_synced, invoked, enqueued, enq_phase, observed, fresh,
                 final_done, iter_fsyncs, iter_carried, num_bytes, num_buffers,
                 metrics_enabled, records, lowest_cost_table_, next_object, deleted,
                 heap_state, hash_calls, hash_offered, hash_last, lost_nodes>>

\* DiskLogConsumerTaskLoop, lines 48-52
ConsInit ==
  /\ cons_pc = "init"
  /\ current_data_written_' = 0
  /\ num_bytes' = 0
  /\ num_buffers' = 0
  /\ cons_pc' = "lock"
  /\ UNCHANGED <<run_task_, do_persist_, persist_lock_, filled_buffer_queue_,
                 empty_buffer_queue_, buffers_, commit_callbacks_, exited, logs,
                 timeout, cons_notified, prod_pc, prod_buf, prod_cbs, produced,
                 flush_pc, flush_notified, term_pc, term_early, file, flushed, durable,
                 step_synced, invoked, enqueued, enq_phase, observed, fresh,
                 final_done, iter_fsyncs, iter_carried, metrics_enabled, records,
                 lowest_cost_table_, next_object, deleted, heap_state, hash_calls,
                 hash_offered, hash_last, lost_nodes>>

\* lines 58 and 64-65: take persist_lock_ and evaluate the predicate of wait_for;
\* when it holds the wait returns at once and the lock is released at line 66
ConsLock ==
  /\ cons_pc = "lock"
  /\ ~persist_lock_
  /\ persist_lock_' = ~WakePredicate
  /\ cons_pc' = IF WakePredicate THEN "drain_check" ELSE "block"
  /\ UNCHANGED <<run_task_, do_persist_, filled_buffer_queue_, empty_buffer_queue_,
                 buffers_, commit_callbacks_, current_data_written_, exited, logs,
                 timeout, cons_notified, prod_pc, prod_buf, prod_cbs, produced,
                 flush_pc, flush_notified, term_pc, term_early, file, flushed, durable,
                 step_synced, invoked, enqueued, enq_phase, observed, fresh,
                 final_done, iter_fsyncs, iter_carried, num_bytes, num_buffers,
                 metrics_enabled, records, lowest_cost_table_, next_object, deleted,
                 heap_state, hash_calls, hash_offered, hash_last, lost_nodes>>

\* line 64: the predicate was false, at the first evaluation or after a wake-up;
\* the wait releases the lock and blocks
ConsBlock ==
  /\ cons_pc = "block"
  /\ persist_lock_' = FALSE
  /\ cons_notified' = FALSE
  /\ cons_pc' = "waiting"
  /\ UNCHANGED <<run_task_, do_persist_, filled_buffer_queue_, empty_buffer_queue_,
                 buffers_, commit_callbacks_, current_data_written_, exited, logs,
                 timeout, prod_pc, prod_buf, prod_cbs, produced, flush_pc,
                 flush_notified, term_pc, term_early, file, flushed, durable,
                 step_synced, invoked, enqueued, enq_phase, observed, fresh,
                 final_done, iter_fsyncs, iter_carried, num_bytes, num_buffers,
                 metrics_enabled, records, lowest_cost_table_, next_object, deleted,
                 heap_state, hash_calls, hash_offered, hash_last, lost_nodes>>

\* line 64: woken by a notification, wait_for retakes the lock and evaluates the
\* predicate.  When it is false the consumer holds the lock and is no longer
\* waiting on the condition variable until ConsBlock releases the lock and
\* blocks again: a notification sent in between reaches nobody.
ConsWakeNotified ==
  /\ cons_pc = "waiting"
  /\ cons_notified
  /\ ~persist_lock_
  /\ cons_notified' = FALSE
  /\ persist_lock_' = ~WakePredicate
  /\ cons_pc' = IF WakePredicate THEN "drain_check" ELSE "block"
  /\ UNCHANGED <<run_task_, do_persist_, filled_buffer_queue_, empty_buffer_queue_,
                 buffers_, commit_callbacks_, current_data_written_, exited, logs,
                 timeout, prod_pc, prod_buf, prod_cbs, produced, flush_pc,
                 flush_notified, term_pc, term_early, file, flushed, durable,
                 step_synced, invoked, enqueued, enq_phase, observed, fresh,
                 final_done, iter_fsyncs, iter_carried, num_bytes, num_buffers,
                 metrics_enabled, records, lowest_cost_table_, next_object, deleted,
                 heap_state, hash_calls, hash_offered, hash_last, lost_nodes>>

\* line 64: a spurious wake-up of wait_for, which the condition variable allows at
\* any time; it retakes the lock and evaluates the predicate like a notified one
ConsWakeSpurious ==
  /\ cons_pc = "waiting"
  /\ ~cons_notified
  /\ ~persist_lock_
  /\ persist_lock_' = ~WakePredicate
  /\ cons_pc' = IF WakePredicate THEN "drain_check" ELSE "block"
  /\ UNCHANGED <<run_task_, do_persist_, filled_buffer_queue_, empty_buffer_queue_,
                 buffers_, commit_callbacks_, current_data_written_, exited, logs,
                 timeout, cons_notified, prod_pc, prod_buf, prod_cbs, produced,
                 flush_pc, flush_notified, term_pc, term_early, file, flushed, durable,
                 step_synced, invoked, enqueued, enq_phase, observed, fresh,
                 final_done, iter_fsyncs, iter_carried, num_bytes, num_buffers,
                 metrics_enabled, records, lowest_cost_table_, next_object, deleted,
                 heap_state, hash_calls, hash_offered, hash_last, lost_nodes>>

\* faulty variant of ConsWakeTimeout: wait() instead of wait_for(), so no timeout wakes
\* the consumer
ConsWakeNoTimeout ==
  /\ cons_pc = "waiting"
  /\ FALSE
  /\ UNCHANGED <<run_task_, do_persist_, persist_lock_, filled_buffer_queue_,
                 empty_buffer_queue_, buffers_, commit_callbacks_,
                 current_data_written_, cons_pc, exited, logs, timeout, cons_notified,
                 prod_pc, prod_buf, prod_cbs, produced, flush_pc, flush_notified,
                 term_pc, term_early, file, flushed, durable, step_synced, invoked,
                 enqueued, enq_phase, observed, fresh, final_done, iter_fsyncs,
                 iter_carried, num_bytes, num_buffers, metrics_enabled, records,
                 lowest_cost_table_, next_object, deleted, heap_state, hash_calls,
                 hash_offered, hash_last, lost_nodes>>

\* line 64: persist_interval_ has passed; wait_for returns whatever the predicate
ConsWakeTimeout ==
  /\ cons_pc = "waiting"
  /\ ~persist_lock_
  /\ cons_notified' = FALSE
  /\ cons_pc' = "drain_check"
  /\ UNCHANGED <<run_task_, do_persist_, persist_lock_, filled_buffer_queue_,
                 empty_buffer_queue_, buffers_, commit_callbacks_,
                 current_data_written_, exited, logs, timeout, prod_pc, prod_buf,
                 prod_cbs, produced, flush_pc, flush_notified, term_pc, term_early,
                 file, flushed, durable, step_synced, invoked, enqueued, enq_phase,
                 observed, fresh, final_done, iter_fsyncs, iter_carried, num_bytes,
                 num_buffers, metrics_enabled, records, lowest_cost_table_,
                 next_object, deleted, heap_state, hash_calls, hash_offered, hash_last,
                 lost_nodes>>

\* faulty variant of ConsDrainCheck: the thread ends after the drain that follows
\* the loop (line 107 missing)
ConsDrainCheckNoFinalPersist ==
  /\ cons_pc = "drain_check"
  /\ cons_pc' = IF filled_buffer_queue_ # <<>> THEN "dequeue"
                ELSE IF exited THEN "terminated" ELSE "decide"
  /\ final_done' = IF filled_buffer_queue_ = <<>> /\ exited
                     THEN [final_done EXCEPT !.drained = TRUE]
                     ELSE final_done
  /\ UNCHANGED <<run_task_, do_persist_, persist_lock_, filled_buffer_queue_,
                 empty_buffer_queue_, buffers_, commit_callbacks_,
                 current_data_written_, exited, logs, timeout, cons_notified, prod_pc,
                 prod_buf, prod_cbs, produced, flush_pc, flush_notified, term_pc,
                 term_early, file, flushed, durable, step_synced, invoked, enqueued,
                 enq_phase, observed, fresh, iter_fsyncs, iter_carried, num_bytes,
                 num_buffers, metrics_enabled, records, lowest_cost_table_,
                 next_object, deleted, heap_state, hash_calls, hash_offered, hash_last,
                 lost_nodes>>

\* faulty variant of ConsDrainCheck: after the loop the drain is skipped (line 106 missing)
ConsDrainCheckNoFinalDrain ==
  /\ cons_pc = "drain_check"
  /\ cons_pc' = IF exited THEN "fsync"
                ELSE IF filled_buffer_queue_ # <<>> THEN "dequeue" ELSE "decide"
  /\ final_done' = IF exited THEN [final_done EXCEPT !.drained = TRUE] ELSE final_done
  /\ UNCHANGED <<run_task_, do_persist_, persist_lock_, filled_buffer_queue_,
                 empty_buffer_queue_, buffers_, commit_callbacks_,
                 current_data_written_, exited, logs, timeout, cons_notified, prod_pc,
                 prod_buf, prod_cbs, produced, flush_pc, flush_notified, term_pc,
                 term_early, file, flushed, durable, step_synced, invoked, enqueued,
                 enq_phase, observed, fresh, iter_fsyncs, iter_carried, num_bytes,
                 num_buffers, metrics_enabled, records, lowest_cost_table_,
                 next_object, deleted, heap_state, hash_calls, hash_offered, hash_last,
                 lost_nodes>>

\* WriteBuffersToLogFile, line 25: the loop condition.  When the queue is empty
\* the function returns, to line 81 inside the loop and to line 107 after it.
ConsDrainCheck ==
  /\ cons_pc = "drain_check"
  /\ cons_pc' = IF filled_buffer_queue_ # <<>> THEN "dequeue"
                ELSE IF exited THEN "fsync" ELSE "decide"
  /\ final_done' = IF filled_buffer_queue_ = <<>> /\ exited
                     THEN [final_done EXCEPT !.drained = TRUE]
                     ELSE final_done
  /\ UNCHANGED <<run_task_, do_persist_, persist_lock_, filled_buffer_queue_,
                 empty_buffer_queue_, buffers_, commit_callbacks_,
                 current_data_written_, exited, logs, timeout, cons_notified, prod_pc,
                 prod_buf, prod_cbs, produced, flush_pc, flush_notified, term_pc,
                 term_early, file, flushed, durable, step_synced, invoked, enqueued,
                 enq_phase, observed, fresh, iter_fsyncs, iter_carried, num_bytes,
                 num_buffers, metrics_enabled, records, lowest_cost_table_,
                 next_object, deleted, heap_state, hash_calls, hash_offered, hash_last,
                 lost_nodes>>

\* faulty variant of ConsDequeue: the buffer is given back as soon as it is dequeued,
\* before FlushBuffer
ConsDequeueRecyclesEarly ==
  /\ cons_pc = "dequeue"
  /\ logs' = Head(filled_buffer_queue_)
  /\ filled_buffer_queue_' = Tail(filled_buffer_queue_)
  /\ empty_buffer_queue_' = Append(empty_buffer_queue_, Head(filled_buffer_queue_).buf)
  /\ cons_pc' = "flush"
  /\ UNCHANGED <<run_task_, do_persist_, persist_lock_, buffers_, commit_callbacks_,
                 current_data_written_, exited, timeout, cons_notified, prod_pc,
                 prod_buf, prod_cbs, produced, flush_pc, flush_notified, term_pc,
                 term_early, file, flushed, durable, step_synced, invoked, enqueued,
                 enq_phase, observed, fresh, final_done, iter_fsyncs, iter_carried,
                 num_bytes, num_buffers, metrics_enabled, records, lowest_cost_table_,
                 next_object, deleted, heap_state, hash_calls, hash_offered, hash_last,
                 lost_nodes>>

\* faulty variant of ConsDequeue: the newest entry is taken instead of the oldest
ConsDequeueNewest ==
  /\ cons_pc = "dequeue"
  /\ logs' = filled_buffer_queue_[Len(filled_buffer_queue_)]
  /\ filled_buffer_queue_' = SubSeq(filled_buffer_queue_, 1, Len(filled_buffer_queue_) - 1)
  /\ cons_pc' = "flush"
  /\ UNCHANGED <<run_task_, do_persist_, persist_lock_, empty_buffer_queue_, buffers_,
                 commit_callbacks_, current_data_written_, exited, timeout,
                 cons_notified, prod_pc, prod_buf, prod_cbs, produced, flush_pc,
                 flush_notified, term_pc, term_early, file, flushed, durable,
                 step_synced, invoked, enqueued, enq_phase, observed, fresh,
                 final_done, iter_fsyncs, iter_carried, num_bytes, num_buffers,
                 metrics_enabled, records, lowest_cost_table_, next_object, deleted,
                 heap_state, hash_calls, hash_offered, hash_last, lost_nodes>>

\* line 27
ConsDequeue ==
  /\ cons_pc = "dequeue"
  /\ logs' = Head(filled_buffer_queue_)
  /\ filled_buffer_queue_' = Tail(filled_buffer_queue_)
  /\ cons_pc' = "flush"
  /\ UNCHANGED <<run_task_, do_persist_, persist_lock_, empty_buffer_queue_, buffers_,
                 commit_callbacks_, current_data_written_, exited, timeout,
                 cons_notified, prod_pc, prod_buf, prod_cbs, produced, flush_pc,
                 flush_notified, term_pc, term_early, file, flushed, durable,
                 step_synced, invoked, enqueued, enq_phase, observed, fresh,
                 final_done, iter_fsyncs, iter_carried, num_bytes, num_buffers,
                 metrics_enabled, records, lowest_cost_table_, next_object, deleted,
                 heap_state, hash_calls, hash_offered, hash_last, lost_nodes>>

\* faulty variant of ConsFlush: Persist() is called for every buffer drained
ConsFlushPersists ==
  /\ cons_pc = "flush"
  /\ file' = file \o buffers_[logs.buf]
  /\ current_data_written_' = current_data_written_ + Len(buffers_[logs.buf])
  /\ buffers_' = [buffers_ EXCEPT ![logs.buf] = <<>>]
  /\ flushed' = Append(flushed, logs.id)
  /\ commit_callbacks_' = commit_callbacks_ \o logs.cbs
  /\ durable' = durable \cup Range(flushed) \cup {logs.id}
  /\ iter_fsyncs' = iter_fsyncs + 1
  /\ cons_pc' = "recycle"
  /\ UNCHANGED <<run_task_, do_persist_, persist_lock_, filled_buffer_queue_,
                 empty_buffer_queue_, exited, logs, timeout, cons_notified, prod_pc,
                 prod_buf, prod_cbs, produced, flush_pc, flush_notified, term_pc,
                 term_early, step_synced, invoked, enqueued, enq_phase, observed,
                 fresh, final_done, iter_carried, num_bytes, num_buffers,
                 metrics_enabled, records, lowest_cost_table_, next_object, deleted,
                 heap_state, hash_calls, hash_offered, hash_last, lost_nodes>>

\* faulty variant of ConsFlush: the callbacks of the entry replace the pending ones
ConsFlushDropsPending ==
  /\ cons_pc = "flush"
  /\ file' = file \o buffers_[logs.buf]
  /\ current_data_written_' = current_data_written_ + Len(buffers_[logs.buf])
  /\ buffers_' = [buffers_ EXCEPT ![logs.buf] = <<>>]
  /\ flushed' = Append(flushed, logs.id)
  /\ commit_callbacks_' = logs.cbs
  /\ cons_pc' = "recycle"
  /\ UNCHANGED <<run_task_, do_persist_, persist_lock_, filled_buffer_queue_,
                 empty_buffer_queue_, exited, logs, timeout, cons_notified, prod_pc,
                 prod_buf, prod_cbs, produced, flush_pc, flush_notified, term_pc,
                 term_early, durable, step_synced, invoked, enqueued, enq_phase,
                 observed, fresh, final_done, iter_fsyncs, iter_carried, num_bytes,
                 num_buffers, metrics_enabled, records, lowest_cost_table_,
                 next_object, deleted, heap_state, hash_calls, hash_offered, hash_last,
                 lost_nodes>>

\* faulty variant of ConsFlush: the callbacks are inserted at the begin of the list
ConsFlushCallbacksFront ==
  /\ cons_pc = "flush"
  /\ file' = file \o buffers_[logs.buf]
  /\ current_data_written_' = current_data_written_ + Len(buffers_[logs.buf])
  /\ buffers_' = [buffers_ EXCEPT ![logs.buf] = <<>>]
  /\ flushed' = Append(flushed, logs.id)
  /\ commit_callbacks_' = logs.cbs \o commit_callbacks_
  /\ cons_pc' = "recycle"
  /\ UNCHANGED <<run_task_, do_persist_, persist_lock_, filled_buffer_queue_,
                 empty_buffer_queue_, exited, logs, timeout, cons_notified, prod_pc,
                 prod_buf, prod_cbs, produced, flush_pc, flush_notified, term_pc,
                 term_early, durable, step_synced, invoked, enqueued, enq_phase,
                 observed, fresh, final_done, iter_fsyncs, iter_carried, num_bytes,
                 num_buffers, metrics_enabled, records, lowest_cost_table_,
                 next_object, deleted, heap_state, hash_calls, hash_offered, hash_last,
                 lost_nodes>>

\* lines 28-29: FlushBuffer writes the staged bytes to the file, empties the
\* buffer and returns their number; the callbacks go to the end of the list
ConsFlush ==
  /\ cons_pc = "flush"
  /\ file' = file \o buffers_[logs.buf]
  /\ current_data_written_' = current_data_written_ + Len(buffers_[logs.buf])
  /\ buffers_' = [buffers_ EXCEPT ![logs.buf] = <<>>]
  /\ flushed' = Append(flushed, logs.id)
  /\ commit_callbacks_' = commit_callbacks_ \o logs.cbs
  /\ cons_pc' = "recycle"
  /\ UNCHANGED <<run_task_, do_persist_, persist_lock_, filled_buffer_queue_,
                 empty_buffer_queue_, exited, logs, timeout, cons_notified, prod_pc,
                 prod_buf, prod_cbs, produced, flush_pc, flush_notified, term_pc,
                 term_early, durable, step_synced, invoked, enqueued, enq_phase,
                 observed, fresh, final_done, iter_fsyncs, iter_carried, num_bytes,
                 num_buffers, metrics_enabled, records, lowest_cost_table_,
                 next_object, deleted, heap_state, hash_calls, hash_offered, hash_last,
                 lost_nodes>>

\* faulty variant of ConsRecycle: the flushed buffer is not given back
ConsRecycleLeak ==
  /\ cons_pc = "recycle"
  /\ logs' = NoLogs
  /\ cons_pc' = "drain_check"
  /\ UNCHANGED <<run_task_, do_persist_, persist_lock_, filled_buffer_queue_,
                 empty_buffer_queue_, buffers_, commit_callbacks_,
                 current_data_written_, exited, timeout, cons_notified, prod_pc,
                 prod_buf, prod_cbs, produced, flush_pc, flush_notified, term_pc,
                 term_early, file, flushed, durable, step_synced, invoked, enqueued,
                 enq_phase, observed, fresh, final_done, iter_fsyncs, iter_carried,
                 num_bytes, num_buffers, metrics_enabled, records, lowest_cost_table_,
                 next_object, deleted, heap_state, hash_calls, hash_offered, hash_last,
                 lost_nodes>>

\* line 31
ConsRecycle ==
  /\ cons_pc = "recycle"
  /\ empty_buffer_queue_' = Append(empty_buffer_queue_, logs.buf)
  /\ logs' = NoLogs
  /\ cons_pc' = "drain_check"
  /\ UNCHANGED <<run_task_, do_persist_, persist_lock_, filled_buffer_queue_, buffers_,
                 commit_callbacks_, current_data_written_, exited, timeout,
                 cons_notified, prod_pc, prod_buf, prod_cbs, produced, flush_pc,
                 flush_notified, term_pc, term_early, file, flushed, durable,
                 step_synced, invoked, enqueued, enq_phase, observed, fresh,
                 final_done, iter_fsyncs, iter_carried, num_bytes, num_buffers,
                 metrics_enabled, records, lowest_cost_table_, next_object, deleted,
                 heap_state, hash_calls, hash_offered, hash_last, lost_nodes>>

\* faulty variant of ConsDecideWith: the persist is not guarded by line 83
ConsDecideAlways(t) ==
  /\ cons_pc = "decide"
  /\ timeout' = t
  /\ cons_pc' = "persist_lock"
  /\ UNCHANGED <<run_task_, do_persist_, persist_lock_, filled_buffer_queue_,
                 empty_buffer_queue_, buffers_, commit_callbacks_,
                 current_data_written_, exited, logs, cons_notified, prod_pc, prod_buf,
                 prod_cbs, produced, flush_pc, flush_notified, term_pc, term_early,
                 file, flushed, durable, step_synced, invoked, enqueued, enq_phase,
                 observed, fresh, final_done, iter_fsyncs, iter_carried, num_bytes,
                 num_buffers, metrics_enabled, records, lowest_cost_table_,
                 next_object, deleted, heap_state, hash_calls, hash_offered, hash_last,
                 lost_nodes>>

\* lines 81-83: the persist decision, taken without the lock; t is what line 81
\* computes
ConsDecideWith(t) ==
  /\ cons_pc = "decide"
  /\ timeout' = t
  /\ cons_pc' = IF PersistCondition(t) THEN "persist_lock" ELSE "while"
  /\ UNCHANGED <<run_task_, do_persist_, persist_lock_, filled_buffer_queue_,
                 empty_buffer_queue_, buffers_, commit_callbacks_,
                 current_data_written_, exited, logs, cons_notified, prod_pc, prod_buf,
                 prod_cbs, produced, flush_pc, flush_notified, term_pc, term_early,
                 file, flushed, durable, step_synced, invoked, enqueued, enq_phase,
                 observed, fresh, final_done, iter_fsyncs, iter_carried, num_bytes,
                 num_buffers, metrics_enabled, records, lowest_cost_table_,
                 next_object, deleted, heap_state, hash_calls, hash_offered, hash_last,
                 lost_nodes>>

\* whether more than persist_interval_ has passed since last_persist is the
\* clock's choice
ConsDecide == \E t \in BOOLEAN : ConsDecideWith(t)

\* faulty variant of ConsPersistLock: the persist step runs without persist_lock_
ConsPersistNoLock ==
  /\ cons_pc = "persist_lock"
  /\ fresh' = [f \in Flushers |->
                 IF flush_pc[f] = "waiting" /\ fresh[f] = "none" THEN "locked" ELSE fresh[f]]
  /\ cons_pc' = "fsync"
  /\ UNCHANGED <<run_task_, do_persist_, persist_lock_, filled_buffer_queue_,
                 empty_buffer_queue_, buffers_, commit_callbacks_,
                 current_data_written_, exited, logs, timeout, cons_notified, prod_pc,
                 prod_buf, prod_cbs, produced, flush_pc, flush_notified, term_pc,
                 term_early, file, flushed, durable, step_synced, invoked, enqueued,
                 enq_phase, observed, final_done, iter_fsyncs, iter_carried, num_bytes,
                 num_buffers, metrics_enabled, records, lowest_cost_table_,
                 next_object, deleted, heap_state, hash_calls, hash_offered, hash_last,
                 lost_nodes>>

\* faulty variant of ConsPersistLock: the pending callbacks are invoked before
\* Persist() is called
ConsPersistLockInvokesFirst ==
  /\ cons_pc = "persist_lock"
  /\ ~persist_lock_
  /\ persist_lock_' = TRUE
  /\ invoked' = invoked \o [i \in 1..Len(commit_callbacks_) |->
                              [cb |-> commit_callbacks_[i], synced |-> {}, final |-> exited]]
  /\ fresh' = [f \in Flushers |->
                 IF flush_pc[f] = "waiting" /\ fresh[f] = "none" THEN "locked" ELSE fresh[f]]
  /\ cons_pc' = "fsync"
  /\ UNCHANGED <<run_task_, do_persist_, filled_buffer_queue_, empty_buffer_queue_,
                 buffers_, commit_callbacks_, current_data_written_, exited, logs,
                 timeout, cons_notified, prod_pc, prod_buf, prod_cbs, produced,
                 flush_pc, flush_notified, term_pc, term_early, file, flushed, durable,
                 step_synced, enqueued, enq_phase, observed, final_done, iter_fsyncs,
                 iter_carried, num_bytes, num_buffers, metrics_enabled, records,
                 lowest_cost_table_, next_object, deleted, heap_state, hash_calls,
                 hash_offered, hash_last, lost_nodes>>

\* line 86: the persist step of the loop begins by taking persist_lock_
ConsPersistLock ==
  /\ cons_pc = "persist_lock"
  /\ ~persist_lock_
  /\ persist_lock_' = TRUE
  /\ fresh' = [f \in Flushers |->
                 IF flush_pc[f] = "waiting" /\ fresh[f] = "none" THEN "locked" ELSE fresh[f]]
  /\ cons_pc' = "fsync"
  /\ UNCHANGED <<run_task_, do_persist_, filled_buffer_queue_, empty_buffer_queue_,
                 buffers_, commit_callbacks_, current_data_written_, exited, logs,
                 timeout, cons_notified, prod_pc, prod_buf, prod_cbs, produced,
                 flush_pc, flush_notified, term_pc, term_early, file, flushed, durable,
                 step_synced, invoked, enqueued, enq_phase, observed, final_done,
                 iter_fsyncs, iter_carried, num_bytes, num_buffers, metrics_enabled,
                 records, lowest_cost_table_, next_object, deleted, heap_state,
                 hash_calls, hash_offered, hash_last, lost_nodes>>

\* faulty variant of ConsFsync: the call of Persist() is missing
ConsFsyncDropped ==
  /\ cons_pc = "fsync"
  /\ fresh' = [f \in Flushers |->
                 IF ~exited /\ fresh[f] = "locked" THEN "synced" ELSE fresh[f]]
  /\ cons_pc' = "invoke"
  /\ UNCHANGED <<run_task_, do_persist_, persist_lock_, filled_buffer_queue_,
                 empty_buffer_queue_, buffers_, commit_callbacks_,
                 current_data_written_, exited, logs, timeout, cons_notified, prod_pc,
                 prod_buf, prod_cbs, produced, flush_pc, flush_notified, term_pc,
                 term_early, file, flushed, durable, step_synced, invoked, enqueued,
                 enq_phase, observed, final_done, iter_fsyncs, iter_carried, num_bytes,
                 num_buffers, metrics_enabled, records, lowest_cost_table_,
                 next_object, deleted, heap_state, hash_calls, hash_offered, hash_last,
                 lost_nodes>>

\* PersistLogFile, line 39: Persist() makes every byte written to the file so
\* far durable
ConsFsync ==
  /\ cons_pc = "fsync"
  /\ durable' = durable \cup Range(flushed)
  /\ step_synced' = Range(flushed)
  /\ iter_fsyncs' = iter_fsyncs + 1
  /\ fresh' = [f \in Flushers |->
                 IF ~exited /\ fresh[f] = "locked" THEN "synced" ELSE fresh[f]]
  /\ cons_pc' = "invoke"
  /\ UNCHANGED <<run_task_, do_persist_, persist_lock_, filled_buffer_queue_,
                 empty_buffer_queue_, buffers_, commit_callbacks_,
                 current_data_written_, exited, logs, timeout, cons_notified, prod_pc,
                 prod_buf, prod_cbs, produced, flush_pc, flush_notified, term_pc,
                 term_early, file, flushed, invoked, enqueued, enq_phase, observed,
                 final_done, iter_carried, num_bytes, num_buffers, metrics_enabled,
                 records, lowest_cost_table_, next_object, deleted, heap_state,
                 hash_calls, hash_offered, hash_last, lost_nodes>>

\* PersistLogFile, line 39, when the fsync fails: Persist() does not return, the
\* process aborts
ConsFsyncFail ==
  /\ cons_pc = "fsync"
  /\ cons_pc' = "aborted"
  /\ UNCHANGED <<run_task_, do_persist_, persist_lock_, filled_buffer_queue_,
                 empty_buffer_queue_, buffers_, commit_callbacks_,
                 current_data_written_, exited, logs, timeout, cons_notified, prod_pc,
                 prod_buf, prod_cbs, produced, flush_pc, flush_notified, term_pc,
                 term_early, file, flushed, durable, step_synced, invoked, enqueued,
                 enq_phase, observed, fresh, final_done, iter_fsyncs, iter_carried,
                 num_bytes, num_buffers, metrics_enabled, records, lowest_cost_table_,
                 next_object, deleted, heap_state, hash_calls, hash_offered, hash_last,
                 lost_nodes>>

\* faulty variant of ConsInvoke: commit_callbacks_.clear() is missing
ConsInvokeNoClear ==
  /\ cons_pc = "invoke"
  /\ num_buffers' = IF exited THEN num_buffers ELSE Len(commit_callbacks_)
  /\ invoked' = invoked \o [i \in 1..Len(commit_callbacks_) |->
                              [cb |-> commit_callbacks_[i], synced |-> step_synced, final |-> exited]]
  /\ step_synced' = {}
  /\ cons_pc' = IF exited THEN "terminated" ELSE "reset"
  /\ final_done' = IF exited THEN [final_done EXCEPT !.persisted = TRUE] ELSE final_done
  /\ UNCHANGED <<run_task_, do_persist_, persist_lock_, filled_buffer_queue_,
                 empty_buffer_queue_, buffers_, commit_callbacks_,
                 current_data_written_, exited, logs, timeout, cons_notified, prod_pc,
                 prod_buf, prod_cbs, produced, flush_pc, flush_notified, term_pc,
                 term_early, file, flushed, durable, enqueued, enq_phase, observed,
                 fresh, iter_fsyncs, iter_carried, num_bytes, metrics_enabled, records,
                 lowest_cost_table_, next_object, deleted, heap_state, hash_calls,
                 hash_offered, hash_last, lost_nodes>>

\* lines 40-44: invoke every pending callback in order, clear the list and
\* return, to line 88 inside the loop, to the end of the thread after it
ConsInvoke ==
  /\ cons_pc = "invoke"
  /\ num_buffers' = IF exited THEN num_buffers ELSE Len(commit_callbacks_)
  /\ invoked' = invoked \o [i \in 1..Len(commit_callbacks_) |->
                              [cb |-> commit_callbacks_[i], synced |-> step_synced, final |-> exited]]
  /\ commit_callbacks_' = <<>>
  /\ step_synced' = {}
  /\ cons_pc' = IF exited THEN "terminated" ELSE "reset"
  /\ final_done' = IF exited THEN [final_done EXCEPT !.persisted = TRUE] ELSE final_done
  /\ UNCHANGED <<run_task_, do_persist_, persist_lock_, filled_buffer_queue_,
                 empty_buffer_queue_, buffers_, current_data_written_, exited, logs,
                 timeout, cons_notified, prod_pc, prod_buf, prod_cbs, produced,
                 flush_pc, flush_notified, term_pc, term_early, file, flushed, durable,
                 enqueued, enq_phase, observed, fresh, iter_fsyncs, iter_carried,
                 num_bytes, metrics_enabled, records, lowest_cost_table_, next_object,
                 deleted, heap_state, hash_calls, hash_offered, hash_last, lost_nodes>>

\* lines 88-93: reset the meta data and release persist_lock_
ConsReset ==
  /\ cons_pc = "reset"
  /\ num_bytes' = current_data_written_
  /\ current_data_written_' = 0
  /\ do_persist_' = FALSE
  /\ persist_lock_' = FALSE
  /\ fresh' = [f \in Flushers |-> IF fresh[f] = "synced" THEN "done" ELSE fresh[f]]
  /\ cons_pc' = "notify"
  /\ UNCHANGED <<run_task_, filled_buffer_queue_, empty_buffer_queue_, buffers_,
                 commit_callbacks_, exited, logs, timeout, cons_notified, prod_pc,
                 prod_buf, prod_cbs, produced, flush_pc, flush_notified, term_pc,
                 term_early, file, flushed, durable, step_synced, invoked, enqueued,
                 enq_phase, observed, final_done, iter_fsyncs, iter_carried,
                 num_buffers, metrics_enabled, records, lowest_cost_table_,
                 next_object, deleted, heap_state, hash_calls, hash_offered, hash_last,
                 lost_nodes>>

\* faulty variant of ConsNotify: persist_cv_ is not notified
ConsNotifyMissing ==
  /\ cons_pc = "notify"
  /\ cons_pc' = "while"
  /\ UNCHANGED <<run_task_, do_persist_, persist_lock_, filled_buffer_queue_,
                 empty_buffer_queue_, buffers_, commit_callbacks_,
                 current_data_written_, exited, logs, timeout, cons_notified, prod_pc,
                 prod_buf, prod_cbs, produced, flush_pc, flush_notified, term_pc,
                 term_early, file, flushed, durable, step_synced, invoked, enqueued,
                 enq_phase, observed, fresh, final_done, iter_fsyncs, iter_carried,
                 num_bytes, num_buffers, metrics_enabled, records, lowest_cost_table_,
                 next_object, deleted, heap_state, hash_calls, hash_offered, hash_last,
                 lost_nodes>>

\* line 95: persist_cv_.notify_all()
ConsNotify ==
  /\ cons_pc = "notify"
  /\ flush_notified' = [f \in Flushers |-> flush_notified[f] \/ flush_pc[f] = "waiting"]
  /\ cons_pc' = "while"
  /\ UNCHANGED <<run_task_, do_persist_, persist_lock_, filled_buffer_queue_,
                 empty_buffer_queue_, buffers_, commit_callbacks_,
                 current_data_written_, exited, logs, timeout, cons_notified, prod_pc,
                 prod_buf, prod_cbs, produced, flush_pc, term_pc, term_early, file,
                 flushed, durable, step_synced, invoked, enqueued, enq_phase, observed,
                 fresh, final_done, iter_fsyncs, iter_carried, num_bytes, num_buffers,
                 metrics_enabled, records, lowest_cost_table_, next_object, deleted,
                 heap_state, hash_calls, hash_offered, hash_last, lost_nodes>>

\* faulty variant of ConsWhile: the accumulators are not reset after the record has
\* been submitted (line 102 missing)
ConsWhileNoMetricsReset ==
  /\ cons_pc = "while"
  /\ records' = IF num_bytes > 0 /\ metrics_enabled
                  THEN Append(records, [bytes |-> num_bytes, buffers |-> num_buffers])
                  ELSE records
  /\ cons_pc' = IF run_task_ THEN "lock" ELSE "drain_check"
  /\ exited' = ~run_task_
  /\ timeout' = FALSE
  /\ iter_fsyncs' = 0
  /\ iter_carried' = Len(commit_callbacks_)
  /\ UNCHANGED <<run_task_, do_persist_, persist_lock_, filled_buffer_queue_,
                 empty_buffer_queue_, buffers_, commit_callbacks_,
                 current_data_written_, logs, cons_notified, prod_pc, prod_buf,
                 prod_cbs, produced, flush_pc, flush_notified, term_pc, term_early,
                 file, flushed, durable, step_synced, invoked, enqueued, enq_phase,
                 observed, fresh, final_done, num_bytes, num_buffers, metrics_enabled,
                 lowest_cost_table_, next_object, deleted, heap_state, hash_calls,
                 hash_offered, hash_last, lost_nodes>>

\* faulty variant of ConsWhile: the thread ends at the loop exit, without lines 106-107
ConsWhileNoFinal ==
  /\ cons_pc = "while"
  /\ records' = IF num_bytes > 0 /\ metrics_enabled
                  THEN Append(records, [bytes |-> num_bytes, buffers |-> num_buffers])
                  ELSE records
  /\ num_bytes' = IF num_bytes > 0 /\ metrics_enabled THEN 0 ELSE num_bytes
  /\ num_buffers' = IF num_bytes > 0 /\ metrics_enabled THEN 0 ELSE num_buffers
  /\ cons_pc' = IF run_task_ THEN "lock" ELSE "terminated"
  /\ exited' = ~run_task_
  /\ timeout' = FALSE
  /\ iter_fsyncs' = 0
  /\ iter_carried' = Len(commit_callbacks_)
  /\ UNCHANGED <<run_task_, do_persist_, persist_lock_, filled_buffer_queue_,
                 empty_buffer_queue_, buffers_, commit_callbacks_,
                 current_data_written_, logs, cons_notified, prod_pc, prod_buf,
                 prod_cbs, produced, flush_pc, flush_notified, term_pc, term_early,
                 file, flushed, durable, step_synced, invoked, enqueued, enq_phase,
                 observed, fresh, final_done, metrics_enabled, lowest_cost_table_,
                 next_object, deleted, heap_state, hash_calls, hash_offered, hash_last,
                 lost_nodes>>

\* lines 99-104: the record for the metrics store, then the loop condition; lines
\* 105-106 when it is false
ConsWhile ==
  /\ cons_pc = "while"
  /\ records' = IF num_bytes > 0 /\ metrics_enabled
                  THEN Append(records, [bytes |-> num_bytes, buffers |-> num_buffers])
                  ELSE records
  /\ num_bytes' = IF num_bytes > 0 /\ metrics_enabled THEN 0 ELSE num_bytes
  /\ num_buffers' = IF num_bytes > 0 /\ metrics_enabled THEN 0 ELSE num_buffers
  /\ cons_pc' = IF run_task_ THEN "lock" ELSE "drain_check"
  /\ exited' = ~run_task_
  /\ timeout' = FALSE
  /\ iter_fsyncs' = 0
  /\ iter_carried' = Len(commit_callbacks_)
  /\ UNCHANGED <<run_task_, do_persist_, persist_lock_, filled_buffer_queue_,
                 empty_buffer_queue_, buffers_, commit_callbacks_,
                 current_data_written_, logs, cons_notified, prod_pc, prod_buf,
                 prod_cbs, produced, flush_pc, flush_notified, term_pc, term_early,
                 file, flushed, durable, step_synced, invoked, enqueued, enq_phase,
                 observed, fresh, final_done, metrics_enabled, lowest_cost_table_,
                 next_object, deleted, heap_state, hash_calls, hash_offered, hash_last,
                 lost_nodes>>

Consumer ==
  \/ RunTask \/ ConsInit \/ ConsLock \/ ConsBlock \/ ConsWakeNotified
  \/ ConsWakeTimeout \/ ConsDrainCheck \/ ConsDequeue \/ ConsFlush
  \/ ConsRecycle \/ ConsDecide \/ ConsPersistLock \/ ConsFsync
  \/ ConsInvoke \/ ConsReset \/ ConsNotify \/ ConsWhile

\* ------------------------------------------------------------- the serializer
\* obtain a buffer from the empty queue (non-blocking; nothing happens when empty)
ProdGetBuffer ==
  /\ prod_pc = "idle"
  /\ Len(produced) < MaxEntries
  /\ empty_buffer_queue_ # <<>>
  /\ prod_buf' = Head(empty_buffer_queue_)
  /\ empty_buffer_queue_' = Tail(empty_buffer_queue_)
  /\ prod_pc' = "fill"
  /\ UNCHANGED <<run_task_, do_persist_, persist_lock_, filled_buffer_queue_, buffers_,
                 commit_callbacks_, current_data_written_, cons_pc, exited, logs,
                 timeout, cons_notified, prod_cbs, produced, flush_pc, flush_notified,
                 term_pc, term_early, file, flushed, durable, step_synced, invoked,
                 enqueued, enq_phase, observed, fresh, final_done, iter_fsyncs,
                 iter_carried, num_bytes, num_buffers, metrics_enabled, records,
                 lowest_cost_table_, next_object, deleted, heap_state, hash_calls,
                 hash_offered, hash_last, lost_nodes>>

\* fill it with bytes and attach the callbacks of the commit records in them
\* (none, or MaxCallbacks of them)
ProdFill ==
  /\ prod_pc = "fill"
  /\ \E n \in 1..MaxBytes, m \in {0, MaxCallbacks} :
       LET id == Len(produced) + 1 IN
         /\ buffers_' = [buffers_ EXCEPT ![prod_buf] = @ \o BytesOf(id, n)]
         /\ prod_cbs' = CallbacksOf(id, m)
         /\ produced' = Append(produced, [bytes |-> BytesOf(id, n), cbs |-> CallbacksOf(id, m)])
  /\ prod_pc' = "enqueue"
  /\ UNCHANGED <<run_task_, do_persist_, persist_lock_, filled_buffer_queue_,
                 empty_buffer_queue_, commit_callbacks_, current_data_written_,
                 cons_pc, exited, logs, timeout, cons_notified, prod_buf, flush_pc,
                 flush_notified, term_pc, term_early, file, flushed, durable,
                 step_synced, invoked, enqueued, enq_phase, observed, fresh,
                 final_done, iter_fsyncs, iter_carried, num_bytes, num_buffers,
                 metrics_enabled, records, lowest_cost_table_, next_object, deleted,
                 heap_state, hash_calls, hash_offered, hash_last, lost_nodes>>

\* enqueue the (buffer, callbacks) pair on the filled queue
ProdEnqueue ==
  /\ prod_pc = "enqueue"
  /\ LET id == Len(produced) IN
       /\ filled_buffer_queue_' =
            Append(filled_buffer_queue_, [id |-> id, buf |-> prod_buf, cbs |-> prod_cbs])
       /\ enqueued' = Append(enqueued, id)
       /\ enq_phase' = Append(enq_phase, ShutdownPhase)
  /\ prod_buf' = 0
  /\ prod_cbs' = <<>>
  /\ prod_pc' = "notify"
  /\ UNCHANGED <<run_task_, do_persist_, persist_lock_, empty_buffer_queue_, buffers_,
                 commit_callbacks_, current_data_written_, cons_pc, exited, logs,
                 timeout, cons_notified, produced, flush_pc, flush_notified, term_pc,
                 term_early, file, flushed, durable, step_synced, invoked, observed,
                 fresh, final_done, iter_fsyncs, iter_carried, num_bytes, num_buffers,
                 metrics_enabled, records, lowest_cost_table_, next_object, deleted,
                 heap_state, hash_calls, hash_offered, hash_last, lost_nodes>>

\* signal the wake condition of the consumer
ProdNotify ==
  /\ prod_pc = "notify"
  /\ cons_notified' = (cons_notified \/ cons_pc = "waiting")
  /\ prod_pc' = "idle"
  /\ UNCHANGED <<run_task_, do_persist_, persist_lock_, filled_buffer_queue_,
                 empty_buffer_queue_, buffers_, commit_callbacks_,
                 current_data_written_, cons_pc, exited, logs, timeout, prod_buf,
                 prod_cbs, produced, flush_pc, flush_notified, term_pc, term_early,
                 file, flushed, durable, step_synced, invoked, enqueued, enq_phase,
                 observed, fresh, final_done, iter_fsyncs, iter_carried, num_bytes,
                 num_buffers, metrics_enabled, records, lowest_cost_table_,
                 next_object, deleted, heap_state, hash_calls, hash_offered, hash_last,
                 lost_nodes>>

Producer == ProdGetBuffer \/ ProdFill \/ ProdEnqueue \/ ProdNotify

\* ------------------------------------------------------------- force flush
\* a thread calls force_flush(); what is on the filled queue now is the state it
\* observed before the call
FlushCall(f) ==
  /\ flush_pc[f] = "idle"
  /\ flush_pc' = [flush_pc EXCEPT ![f] = "acquire"]
  /\ observed' = [observed EXCEPT ![f] = {filled_buffer_queue_[i].id :
                                           i \in 1..Len(filled_buffer_queue_)}]
  /\ UNCHANGED <<run_task_, do_persist_, persist_lock_, filled_buffer_queue_,
                 empty_buffer_queue_, buffers_, commit_callbacks_,
                 current_data_written_, cons_pc, exited, logs, timeout, cons_notified,
                 prod_pc, prod_buf, prod_cbs, produced, flush_notified, term_pc,
                 term_early, file, flushed, durable, step_synced, invoked, enqueued,
                 enq_phase, fresh, final_done, iter_fsyncs, iter_carried, num_bytes,
                 num_buffers, metrics_enabled, records, lowest_cost_table_,
                 next_object, deleted, heap_state, hash_calls, hash_offered, hash_last,
                 lost_nodes>>

\* under persist_lock_ it sets force_persist and signals the wake condition, then
\* blocks on persist_done, which releases the lock
FlushSet(f) ==
  /\ flush_pc[f] = "acquire"
  /\ ~persist_lock_
  /\ do_persist_' = TRUE
  /\ cons_notified' = (cons_notified \/ cons_pc = "waiting")
  /\ fresh' = [fresh EXCEPT ![f] = "none"]
  /\ flush_notified' = [flush_notified EXCEPT ![f] = FALSE]
  /\ flush_pc' = [flush_pc EXCEPT ![f] = "waiting"]
  /\ UNCHANGED <<run_task_, persist_lock_, filled_buffer_queue_, empty_buffer_queue_,
                 buffers_, commit_callbacks_, current_data_written_, cons_pc, exited,
                 logs, timeout, prod_pc, prod_buf, prod_cbs, produced, term_pc,
                 term_early, file, flushed, durable, step_synced, invoked, enqueued,
                 enq_phase, observed, final_done, iter_fsyncs, iter_carried, num_bytes,
                 num_buffers, metrics_enabled, records, lowest_cost_table_,
                 next_object, deleted, heap_state, hash_calls, hash_offered, hash_last,
                 lost_nodes>>

\* woken by the broadcast it retakes the lock and returns once the flag is clear
FlushWake(f) ==
  /\ flush_pc[f] = "waiting"
  /\ flush_notified[f]
  /\ ~persist_lock_
  /\ flush_notified' = [flush_notified EXCEPT ![f] = FALSE]
  /\ flush_pc' = [flush_pc EXCEPT ![f] = IF do_persist_ THEN "waiting" ELSE "done"]
  /\ UNCHANGED <<run_task_, do_persist_, persist_lock_, filled_buffer_queue_,
                 empty_buffer_queue_, buffers_, commit_callbacks_,
                 current_data_written_, cons_pc, exited, logs, timeout, cons_notified,
                 prod_pc, prod_buf, prod_cbs, produced, term_pc, term_early, file,
                 flushed, durable, step_synced, invoked, enqueued, enq_phase, observed,
                 fresh, final_done, iter_fsyncs, iter_carried, num_bytes, num_buffers,
                 metrics_enabled, records, lowest_cost_table_, next_object, deleted,
                 heap_state, hash_calls, hash_offered, hash_last, lost_nodes>>

\* a spurious wake-up that finds the flag clear
FlushSpurious(f) ==
  /\ flush_pc[f] = "waiting"
  /\ ~flush_notified[f]
  /\ ~persist_lock_
  /\ ~do_persist_
  /\ flush_pc' = [flush_pc EXCEPT ![f] = "done"]
  /\ UNCHANGED <<run_task_, do_persist_, persist_lock_, filled_buffer_queue_,
                 empty_buffer_queue_, buffers_, commit_callbacks_,
                 current_data_written_, cons_pc, exited, logs, timeout, cons_notified,
                 prod_pc, prod_buf, prod_cbs, produced, flush_notified, term_pc,
                 term_early, file, flushed, durable, step_synced, invoked, enqueued,
                 enq_phase, observed, fresh, final_done, iter_fsyncs, iter_carried,
                 num_bytes, num_buffers, metrics_enabled, records, lowest_cost_table_,
                 next_object, deleted, heap_state, hash_calls, hash_offered, hash_last,
                 lost_nodes>>

Flusher(f) == FlushCall(f) \/ FlushSet(f) \/ FlushWake(f)

\* ------------------------------------------------------------- GroupExpression
\* line 18: the stored cost is greater than the cost offered
LowerCost(stored, cost) == stored > cost

\* what a build makes of a delete on a pointer that refers to no live PropertySet
\* (an object deleted before, or the contents of a freed buffer): nothing that
\* shows; an abort of the process by the allocator; the buffer of the input list
\* just stored, which can lie in the chunk of the object deleted before, is freed
\* with it and then holds pointers to no PropertySet; or the destructor of the
\* object deleted before frees what it reads as its buffer, which can be the key
\* object of the entry: the node stays in the table with its cost and inputs,
\* its key reads as no output property set and find() no longer reaches it
DeleteOutcomes == {"unnoticed", "aborted", "overwritten", "key_freed"}

\* SetLocalHashTable(output_properties, input_properties_list, cost).  The caller
\* passes PropertySet objects it has just allocated: one for the output properties
\* (equal, as a value, to k) and n for the input properties.  pending_deletion is
\* a reference to the parameter input_properties_list (line 17), so the assignment
\* of line 19 overwrites the parameter with the stored list before line 22 stores
\* it.  The deletes of lines 26-28 come after the store; outcome is what they
\* lead to when one of them is undefined.
SetLocalHashTable(k, n, cost, outcome) ==
  /\ heap_state # "aborted"
  /\ hash_calls < MaxCalls
  /\ LET output_properties == next_object + 1
         passed == [i \in 1..n |-> next_object + 1 + i]
         it == lowest_cost_table_[k]
         lower == it.present /\ LowerCost(it.cost, cost)
         input_properties_list == IF lower THEN it.inputs ELSE passed
         pending_deletion == input_properties_list
         freed == IF it.present THEN <<output_properties>> \o pending_deletion ELSE <<>>
         undefined == Range(freed) \cap (deleted \cup {NoObject}) # {}
         stored == IF undefined /\ outcome = "overwritten"
                     THEN [i \in 1..Len(input_properties_list) |-> NoObject]
                     ELSE input_properties_list
         node == IF lower THEN [it EXCEPT !.cost = cost, !.inputs = stored] ELSE it
         key_freed == undefined /\ outcome = "key_freed"
     IN
       /\ undefined \/ outcome = "unnoticed"
       /\ lowest_cost_table_' =
            IF ~it.present
              THEN [lowest_cost_table_ EXCEPT
                      ![k] = [present |-> TRUE, cost |-> cost, inputs |-> passed,
                              key |-> output_properties]]
            ELSE [lowest_cost_table_ EXCEPT ![k] = IF key_freed THEN NoEntry ELSE node]
       /\ lost_nodes' = IF key_freed THEN lost_nodes \cup {node} ELSE lost_nodes
       /\ deleted' = deleted \cup (Range(freed) \ {NoObject})
       /\ heap_state' = IF ~undefined \/ outcome = "unnoticed" THEN heap_state
                        ELSE IF outcome = "aborted" THEN "aborted"
                        ELSE "corrupted"
       /\ hash_last' = [called |-> TRUE, key |-> k, cost |-> cost, passed |-> passed,
                        found |-> it.present, replaced |-> lower,
                        stored_before |-> it.inputs, freed |-> freed,
                        undefined |-> undefined]
  /\ next_object' = next_object + 1 + n
  /\ hash_calls' = hash_calls + 1
  /\ hash_offered' = [hash_offered EXCEPT ![k] = @ \cup {cost}]
  /\ UNCHANGED <<run_task_, do_persist_, persist_lock_, filled_buffer_queue_,
                 empty_buffer_queue_, buffers_, commit_callbacks_,
                 current_data_written_, cons_pc, exited, logs, timeout, cons_notified,
                 prod_pc, prod_buf, prod_cbs, produced, flush_pc, flush_notified,
                 term_pc, term_early, file, flushed, durable, step_synced, invoked,
                 enqueued, enq_phase, observed, fresh, final_done, iter_fsyncs,
                 iter_carried, num_bytes, num_buffers, metrics_enabled, records>>

\* ------------------------------------------------------------- metrics
\* before the task is started the logging component is enabled in the metrics
\* store of the thread
EnableMetrics ==
  /\ cons_pc = "created"
  /\ ~metrics_enabled
  /\ metrics_enabled' = TRUE
  /\ UNCHANGED <<run_task_, do_persist_, persist_lock_, filled_buffer_queue_,
                 empty_buffer_queue_, buffers_, commit_callbacks_,
                 current_data_written_, cons_pc, exited, logs, timeout, cons_notified,
                 prod_pc, prod_buf, prod_cbs, produced, flush_pc, flush_notified,
                 term_pc, term_early, file, flushed, durable, step_synced, invoked,
                 enqueued, enq_phase, observed, fresh, final_done, iter_fsyncs,
                 iter_carried, num_bytes, num_buffers, records, lowest_cost_table_,
                 next_object, deleted, heap_state, hash_calls, hash_offered, hash_last,
                 lost_nodes>>

\* ------------------------------------------------------------- Terminate
\* a thread calls Terminate()
TermCall ==
  /\ term_pc = "idle"
  /\ term_early' = (cons_pc = "created")
  /\ term_pc' = "spin"
  /\ UNCHANGED <<run_task_, do_persist_, persist_lock_, filled_buffer_queue_,
                 empty_buffer_queue_, buffers_, commit_callbacks_,
                 current_data_written_, cons_pc, exited, logs, timeout, cons_notified,
                 prod_pc, prod_buf, prod_cbs, produced, flush_pc, flush_notified, file,
                 flushed, durable, step_synced, invoked, enqueued, enq_phase, observed,
                 fresh, final_done, iter_fsyncs, iter_carried, num_bytes, num_buffers,
                 metrics_enabled, records, lowest_cost_table_, next_object, deleted,
                 heap_state, hash_calls, hash_offered, hash_last, lost_nodes>>

\* faulty variant of TermSpin: Terminate() does not wait for the task to start
TermSpinNoWait ==
  /\ term_pc = "spin"
  /\ term_pc' = "set"
  /\ UNCHANGED <<run_task_, do_persist_, persist_lock_, filled_buffer_queue_,
                 empty_buffer_queue_, buffers_, commit_callbacks_,
                 current_data_written_, cons_pc, exited, logs, timeout, cons_notified,
                 prod_pc, prod_buf, prod_cbs, produced, flush_pc, flush_notified,
                 term_early, file, flushed, durable, step_synced, invoked, enqueued,
                 enq_phase, observed, fresh, final_done, iter_fsyncs, iter_carried,
                 num_bytes, num_buffers, metrics_enabled, records, lowest_cost_table_,
                 next_object, deleted, heap_state, hash_calls, hash_offered, hash_last,
                 lost_nodes>>

\* lines 15-16: yield until the task has started
TermSpin ==
  /\ term_pc = "spin"
  /\ run_task_
  /\ term_pc' = "set"
  /\ UNCHANGED <<run_task_, do_persist_, persist_lock_, filled_buffer_queue_,
                 empty_buffer_queue_, buffers_, commit_callbacks_,
                 current_data_written_, cons_pc, exited, logs, timeout, cons_notified,
                 prod_pc, prod_buf, prod_cbs, produced, flush_pc, flush_notified,
                 term_early, file, flushed, durable, step_synced, invoked, enqueued,
                 enq_phase, observed, fresh, final_done, iter_fsyncs, iter_carried,
                 num_bytes, num_buffers, metrics_enabled, records, lowest_cost_table_,
                 next_object, deleted, heap_state, hash_calls, hash_offered, hash_last,
                 lost_nodes>>

\* line 18
TermSet ==
  /\ term_pc = "set"
  /\ run_task_' = FALSE
  /\ term_pc' = "notify"
  /\ UNCHANGED <<do_persist_, persist_lock_, filled_buffer_queue_, empty_buffer_queue_,
                 buffers_, commit_callbacks_, current_data_written_, cons_pc, exited,
                 logs, timeout, cons_notified, prod_pc, prod_buf, prod_cbs, produced,
                 flush_pc, flush_notified, term_early, file, flushed, durable,
                 step_synced, invoked, enqueued, enq_phase, observed, fresh,
                 final_done, iter_fsyncs, iter_carried, num_bytes, num_buffers,
                 metrics_enabled, records, lowest_cost_table_, next_object, deleted,
                 heap_state, hash_calls, hash_offered, hash_last, lost_nodes>>

\* line 19
TermNotify ==
  /\ term_pc = "notify"
  /\ cons_notified' = (cons_notified \/ cons_pc = "waiting")
  /\ term_pc' = "done"
  /\ UNCHANGED <<run_task_, do_persist_, persist_lock_, filled_buffer_queue_,
                 empty_buffer_queue_, buffers_, commit_callbacks_,
                 current_data_written_, cons_pc, exited, logs, timeout, prod_pc,
                 prod_buf, prod_cbs, produced, flush_pc, flush_notified, term_early,
                 file, flushed, durable, step_synced, invoked, enqueued, enq_phase,
                 observed, fresh, final_done, iter_fsyncs, iter_carried, num_bytes,
                 num_buffers, metrics_enabled, records, lowest_cost_table_,
                 next_object, deleted, heap_state, hash_calls, hash_offered, hash_last,
                 lost_nodes>>

Terminate == TermCall \/ TermSpin \/ TermSet \/ TermNotify

\* ------------------------------------------------------------- specifications
\* the whole system with one thread that forces a flush
Next ==
  \/ Consumer
  \/ ConsWakeSpurious
  \/ Producer
  \/ Flusher(1) \/ FlushSpurious(1)
  \/ Terminate

Spec == Init /\ [][Next]_vars

\* the running consumer (never terminated) with every thread that forces a flush
NextFlushers ==
  \/ Consumer
  \/ ConsWakeSpurious
  \/ Producer
  \/ \E f \in Flushers : Flusher(f) \/ FlushSpurious(f)

SpecFlushers == Init /\ [][NextFlushers]_vars

\* the same two systems with the scheduling the threads get.  A thread that can
\* take a step eventually takes it; the timed wait of line 64 makes the wake-up of
\* the consumer one of these steps.  A thread that forces a flush needs
\* persist_lock_, which the consumer holds now and then: it gets the lock when the
\* lock is free again and again.  A spurious wake-up is never owed.
FairSpec == Spec /\ WF_vars(Consumer) /\ WF_vars(Terminate)

FairFlushers ==
  SpecFlushers /\ WF_vars(Consumer) /\ \A f \in Flushers : SF_vars(Flusher(f))

\* the running consumer and the serializer alone: nobody forces a flush, nobody
\* terminates the task
NextProgress ==
  \/ Consumer
  \/ ConsWakeSpurious
  \/ Producer

SpecProgress == Init /\ [][NextProgress]_vars

\* The consumer takes the steps it can take.  The clock goes on: the time since
\* last_persist grows at every wait, so a consumer that comes to line 81 again and
\* again without persisting finds, at some time, that persist_interval_ has passed.
\* For the same reason a wait_for that blocks again after wake-ups that found the
\* predicate false ends at its deadline: spurious wake-ups do not put it off.
FairProgress ==
  /\ SpecProgress
  /\ WF_vars(Consumer)
  /\ SF_vars(ConsWakeTimeout)
  /\ SF_vars(ConsDecideWith(TRUE))

\* the consumer, the serializer and Terminate() on a disk whose fsync can fail;
\* the abort of the process ends every thread
NextFsyncFails ==
  \/ ConsFsyncFail
  \/ cons_pc # "aborted" /\ Consumer
  \/ cons_pc # "aborted" /\ ConsWakeSpurious
  \/ cons_pc # "aborted" /\ Producer
  \/ cons_pc # "aborted" /\ Terminate

SpecFsyncFails == Init /\ [][NextFsyncFails]_vars

\* the consumer, the serializer and Terminate(), with or without a metrics store
\* that records the logging component
NextMetrics ==
  \/ EnableMetrics
  \/ Consumer
  \/ ConsWakeSpurious
  \/ Producer
  \/ Terminate

SpecMetrics == Init /\ [][NextMetrics]_vars

\* a group expression whose lowest-cost table is offered costs
NextHash ==
  \E k \in OutputProps, n \in 0..MaxInputs, cost \in Costs, outcome \in DeleteOutcomes :
    SetLocalHashTable(k, n, cost, outcome)

SpecHash == Init /\ [][NextHash]_vars

\* ------------------------------------------------------------- properties
CallbacksInvokedOnce(id) ==
  \A k \in 1..Len(produced[id].cbs) : Count(InvokedCallbacks, produced[id].cbs[k]) = 1

\* C1: every callback the consumer invokes is invoked after the fsync of the same
\* persist step, and the buffer of the entry that carried it was flushed before
\* that fsync began
DurabilityBeforeCallback ==
  \A i \in 1..Len(invoked) : invoked[i].cb[1] \in invoked[i].synced

DurabilityBeforeCallback_Witness ==
  /\ cons_pc = "reset"
  /\ Len(invoked) > 0

\* C2: no callback is invoked more than once, by the persists of the loop and the
\* persist after the loop together
CallbackAtMostOnce ==
  \A i, j \in 1..Len(invoked) : invoked[i].cb = invoked[j].cb => i = j

CallbackAtMostOnce_Witness ==
  /\ cons_pc = "terminated"
  /\ \E i, j \in 1..Len(invoked) : ~invoked[i].final /\ invoked[j].final

\* C3: when the consumer thread has terminated, every entry enqueued before
\* Terminate() was called has been flushed once, a persist has completed after
\* that flush, and each of its callbacks has been invoked exactly once
ShutdownCompleteness ==
  cons_pc = "terminated" =>
    \A id \in EnqueuedIn({"running"}) :
      /\ Count(flushed, id) = 1
      /\ id \in durable
      /\ CallbacksInvokedOnce(id)

ShutdownCompleteness_Witness ==
  /\ cons_pc = "terminated"
  /\ \E id \in EnqueuedIn({"running"}) :
       /\ produced[id].cbs # <<>>
       /\ \E i \in 1..Len(invoked) : invoked[i].cb[1] = id /\ invoked[i].final

\* C4 as stated: when the consumer thread has terminated, the pending callback
\* list is empty and the filled queue holds no entry that a producer enqueued at
\* any moment up to the termination of the thread
NothingSurvivesShutdown ==
  cons_pc = "terminated" =>
    /\ commit_callbacks_ = <<>>
    /\ \A i \in 1..Len(filled_buffer_queue_) :
         filled_buffer_queue_[i].id \in EnqueuedIn({"ended"})

\* C4 amended: when the consumer thread has terminated, the pending callback list
\* is empty and every entry still on the filled queue was enqueued after the
\* drain that follows the loop had found the queue empty
NothingDrainedSurvivesShutdown ==
  cons_pc = "terminated" =>
    /\ commit_callbacks_ = <<>>
    /\ \A i \in 1..Len(filled_buffer_queue_) :
         filled_buffer_queue_[i].id \in EnqueuedIn({"drained", "ended"})

NothingDrainedSurvivesShutdown_Witness ==
  /\ cons_pc = "terminated"
  /\ Len(flushed) > 0
  /\ \E i \in 1..Len(filled_buffer_queue_) :
       filled_buffer_queue_[i].id \in EnqueuedIn({"drained"})

\* C5: a force_flush() call returns only after a complete persist step of the loop
\* (lock, fsync, callbacks, flag clear) that began after the call set the flag
ForceFlushAfterFreshPersist ==
  \A f \in Flushers : flush_pc[f] = "done" => fresh[f] = "done"

\* ... also with an empty filled queue and no bytes pending
ForceFlushAfterFreshPersist_Witness ==
  /\ \E f \in Flushers : flush_pc[f] = "done"
  /\ produced = <<>>
  /\ file = <<>>

\* C6 as stated: when a force_flush() call returns, every entry that was on the
\* filled queue when the call began has been flushed and persisted and its
\* callbacks have been invoked
ForceFlushCoversObserved ==
  \A f \in Flushers :
    flush_pc[f] = "done" =>
      \A id \in observed[f] : id \in durable /\ CallbacksInvokedOnce(id)

\* C7: the callbacks are invoked in the order of the Enqueue of their entries and,
\* within an entry, of its callback list
CallbackOrdering ==
  IsPrefix(InvokedCallbacks, ConcatCallbacks(enqueued))

CallbackOrdering_Witness ==
  /\ \E i, j \in 1..Len(invoked) : invoked[i].cb[1] # invoked[j].cb[1]
  /\ \E i, j \in 1..Len(invoked) : i # j /\ invoked[i].cb[1] = invoked[j].cb[1]
  /\ \E i, j \in 1..Len(invoked) : ~invoked[i].final /\ invoked[j].final

\* C8: the file is the concatenation of the buffers of the entries in the order
\* of their Enqueue; an entry that has passed the drain was flushed exactly once
\* and never before an entry enqueued earlier
ByteOrdering ==
  /\ IsPrefix(flushed, enqueued)
  /\ file = ConcatBytes(flushed)
  /\ \A i \in 1..Len(enqueued) :
       LET id == enqueued[i] IN
         \/ \E k \in 1..Len(filled_buffer_queue_) : filled_buffer_queue_[k].id = id
         \/ cons_pc = "flush" /\ logs.id = id
         \/ Count(flushed, id) = 1

ByteOrdering_Witness ==
  /\ Len(flushed) >= 2
  /\ Len(file) >= 2

\* C9: without Terminate(), every force_flush() call returns, whatever the number
\* of threads calling it while the producer enqueues
ForceFlushReturns ==
  \A f \in Flushers : (flush_pc[f] # "idle") ~> (flush_pc[f] = "done")

ForceFlushReturns_Witness ==
  /\ \A f \in Flushers : flush_pc[f] = "done"
  /\ Len(enqueued) > 0

\* C10: once Terminate() has been called on a started consumer the thread reaches
\* its end, after one final drain and one final persist; a step of Terminate()
\* changes nothing of the drain or persist in progress
TerminateLeadsToTermination ==
  /\ (term_pc # "idle" /\ cons_pc # "created") ~> (cons_pc = "terminated")
  /\ [](cons_pc = "terminated" => final_done.drained /\ final_done.persisted)
  /\ [][term_pc' # term_pc =>
          UNCHANGED <<cons_pc, exited, logs, filled_buffer_queue_, empty_buffer_queue_,
                      buffers_, commit_callbacks_, current_data_written_, file,
                      flushed, durable, invoked>>]_vars

TerminateLeadsToTermination_Witness ==
  /\ cons_pc = "terminated"
  /\ term_pc = "done"
  /\ Len(flushed) > 0

\* C11: when Terminate() is called before RunTask has set run_task_, it writes
\* run_task_ = false only after run_task_ has become true, and the write of
\* RunTask never follows it; the loop is left only at its condition, after a pass
\* through the body; the thread reaches its end, and when nothing was enqueued it
\* has invoked no callback and written no byte
TerminateBeforeStart ==
  /\ [](term_pc \in {"set", "notify", "done"} => cons_pc # "created")
  /\ [](term_pc \in {"notify", "done"} => ~run_task_)
  /\ [][~exited /\ exited' => cons_pc = "while"]_vars
  /\ [][cons_pc # "while" /\ cons_pc' = "while" => cons_pc \in {"decide", "notify"}]_vars
  /\ (term_early /\ term_pc = "spin") ~> (cons_pc = "terminated")
  /\ [](cons_pc = "terminated" /\ enqueued = <<>> => invoked = <<>> /\ file = <<>>)

TerminateBeforeStart_Witness ==
  /\ term_early
  /\ term_pc = "done"
  /\ cons_pc = "terminated"
  /\ enqueued = <<>>

\* C12: a persist step of the loop begins only at the decision of line 83 and
\* only when, at that decision, more than persist_interval_ had passed since the
\* last persist, or current_data_written_ exceeded persist_threshold_, or
\* do_persist_ was set, or run_task_ was false; the persist after the loop
\* happens with run_task_ false; no fsync happens outside these two
PersistFrequency ==
  /\ [][cons_pc # "persist_lock" /\ cons_pc' = "persist_lock" =>
         /\ cons_pc = "decide"
         /\ \/ timeout'
            \/ current_data_written_ > PersistThreshold
            \/ do_persist_
            \/ ~run_task_]_vars
  /\ [][cons_pc # "fsync" /\ cons_pc' = "fsync" =>
         \/ cons_pc = "persist_lock"
         \/ cons_pc = "drain_check" /\ exited /\ ~run_task_]_vars

\* a persist of the loop that only the elapsed interval has caused
PersistFrequency_Witness ==
  /\ cons_pc = "invoke"
  /\ ~exited
  /\ timeout
  /\ run_task_
  /\ ~do_persist_
  /\ \A f \in Flushers : flush_pc[f] = "idle"
  /\ current_data_written_ > 0
  /\ current_data_written_ <= PersistThreshold
  /\ term_pc = "idle"

\* C13: when current_data_written_ is greater than persist_threshold_ after the
\* drain of a loop iteration, the consumer begins the persist step in that
\* iteration; at the loop condition current_data_written_ is at most
\* persist_threshold_
ThresholdDrivenPersist ==
  /\ [][cons_pc = "decide" /\ cons_pc' # "decide" /\ current_data_written_ > PersistThreshold
          => cons_pc' = "persist_lock"]_vars
  /\ [](cons_pc = "while" => current_data_written_ <= PersistThreshold)

\* a persist step that only the threshold has caused
ThresholdDrivenPersist_Witness ==
  /\ cons_pc = "reset"
  /\ current_data_written_ > PersistThreshold
  /\ ~timeout
  /\ ~do_persist_
  /\ run_task_
  /\ \A f \in Flushers : flush_pc[f] = "idle"
  /\ term_pc = "idle"

\* where the buffers are: on the empty queue, on the filled queue, in the hands of
\* the serializer, in the hands of the consumer (its local logs)
BufferPlaces ==
  empty_buffer_queue_
    \o [i \in 1..Len(filled_buffer_queue_) |-> filled_buffer_queue_[i].buf]
    \o (IF prod_buf # 0 THEN <<prod_buf>> ELSE <<>>)
    \o (IF logs.buf # 0 THEN <<logs.buf>> ELSE <<>>)

\* C14: every buffer is in exactly one place among the empty queue, the filled
\* queue, the serializer's hands and the consumer's hands, so the sizes of the
\* two queues and the number of buffers in flight add up to the number of
\* buffers, and no buffer is twice on a queue
NoBufferLeak ==
  /\ \A b \in Buffers : Count(BufferPlaces, b) = 1
  /\ Len(BufferPlaces) = NumBuffers
  /\ Len(empty_buffer_queue_) + Len(filled_buffer_queue_)
       + Cardinality({prod_buf, logs.buf} \ {0}) = NumBuffers

\* the consumer holds a dequeued buffer while the serializer holds another
NoBufferLeak_Witness ==
  /\ cons_pc = "recycle"
  /\ logs.buf # 0
  /\ prod_buf # 0
  /\ prod_buf # logs.buf

\* C15: with nobody forcing a flush and nobody terminating the task, every entry
\* enqueued on the filled queue is eventually flushed, covered by a later fsync,
\* and each of its callbacks invoked
ProgressWithoutForce ==
  \A id \in 1..MaxEntries :
    (Len(enqueued) >= id) ~>
      (id \in Range(flushed) /\ id \in durable /\ CallbacksInvokedOnce(id))

ProgressWithoutForce_Witness ==
  /\ term_pc = "idle"
  /\ \A f \in Flushers : flush_pc[f] = "idle"
  /\ run_task_
  /\ Len(enqueued) = MaxEntries
  /\ \A id \in 1..MaxEntries : id \in durable /\ CallbacksInvokedOnce(id)
  /\ \E id \in 1..MaxEntries : produced[id].cbs # <<>>

\* C16: when Persist() fails in a persist step, in the loop or after it, the
\* process aborts at once: no callback is invoked and the pending list is not
\* cleared by that step, none of the callbacks pending at the abort has been
\* invoked, and nothing happens after the abort
FsyncFailureFiresNothing ==
  /\ [][cons_pc # "aborted" /\ cons_pc' = "aborted" =>
         /\ cons_pc = "fsync"
         /\ UNCHANGED <<invoked, commit_callbacks_, durable>>]_vars
  /\ [](cons_pc = "aborted" =>
         \A i \in 1..Len(commit_callbacks_) :
           commit_callbacks_[i] \notin Range(InvokedCallbacks))
  /\ [][cons_pc = "aborted" => UNCHANGED vars]_vars

\* a first persist has invoked callbacks, a later one fails with callbacks pending
FsyncFailureFiresNothing_Witness ==
  /\ cons_pc = "aborted"
  /\ commit_callbacks_ # <<>>
  /\ invoked # <<>>

\* C17 as stated: the consumer holds persist_lock_ during every persist step (the
\* fsync, the invocation of the callbacks and the clearing of the list), the one
\* after the loop included, and whenever it reads or writes do_persist_ (the read
\* of line 83, the write of line 92)
LockDiscipline ==
  /\ cons_pc \in {"fsync", "invoke", "reset"} => persist_lock_
  /\ cons_pc = "decide" => persist_lock_

\* C18 as stated, on finite runs: a force_flush() call that has set do_persist_
\* before the consumer thread ends returns; after the end of the thread nothing
\* clears the flag, so the persist after the loop must leave the flag clear when
\* the thread ends
ForceFlushSurvivesShutdown ==
  [][cons_pc # "terminated" /\ cons_pc' = "terminated" => ~do_persist_']_vars

\* the bytes of the entries flushed since the last completed fsync
NotDurable(id) == id \notin durable

UnsyncedBytes == Len(ConcatBytes(SelectSeq(flushed, NotDurable)))

\* C19 as stated: between persists current_data_written_ is the sum of the byte
\* counts FlushBuffer returned for the buffers drained since the last persist and
\* never decreases; after every persist, of the loop or after it, it is 0
ByteAccounting ==
  /\ [](cons_pc \notin {"invoke", "reset"} => current_data_written_ = UnsyncedBytes)
  /\ [][current_data_written_' >= current_data_written_ \/ cons_pc = "reset"]_vars

\* the positions of the consumer inside WriteBuffersToLogFile
DrainPcs == {"drain_check", "dequeue", "flush", "recycle"}

\* what a step may do to the two queues: take the head of the filled queue into
\* the local logs, append the buffer held in logs to the empty queue
QueuesMoveForward ==
  /\ filled_buffer_queue_' # filled_buffer_queue_ =>
       /\ cons_pc = "dequeue"
       /\ filled_buffer_queue_' = Tail(filled_buffer_queue_)
       /\ logs' = Head(filled_buffer_queue_)
  /\ empty_buffer_queue_' # empty_buffer_queue_ =>
       /\ cons_pc = "recycle"
       /\ empty_buffer_queue_' = Append(empty_buffer_queue_, logs.buf)

\* every callback pending has its entry covered by a completed fsync
PendingAreDurable ==
  \A i \in 1..Len(commit_callbacks_) : commit_callbacks_[i][1] \in durable

\* C20: a step of WriteBuffersToLogFile persists nothing, invokes no callback,
\* removes nothing from commit_callbacks_ and leaves do_persist_, run_task_ and
\* the locals of the loop unchanged; it only appends to commit_callbacks_, adds to
\* current_data_written_, takes the head of the filled queue and appends the
\* buffer it holds to the empty queue.  An element leaves commit_callbacks_ only
\* in the persist step, after the fsync that covers its entry.
DrainPhaseFrame ==
  /\ [][(cons_pc \in DrainPcs) /\ cons_pc' # cons_pc =>
         /\ UNCHANGED <<durable, step_synced, invoked, do_persist_, run_task_>>
         /\ UNCHANGED <<persist_lock_, timeout>>
         /\ IsPrefix(commit_callbacks_, commit_callbacks_')
         /\ current_data_written_' >= current_data_written_
         /\ QueuesMoveForward]_vars
  /\ [][~IsPrefix(commit_callbacks_, commit_callbacks_') =>
         cons_pc = "invoke" /\ PendingAreDurable]_vars

\* the drain adds the callbacks of a second entry to those of a first
DrainPhaseFrame_Witness ==
  /\ cons_pc = "recycle"
  /\ Len(commit_callbacks_) > MaxCallbacks
  /\ current_data_written_ > MaxBytes

\* C21: between two evaluations of the loop condition Persist() is called at most
\* once, however many buffers were drained; every callback of every drained
\* buffer stays pending until it is invoked, so the persist step invokes all that
\* accumulated since the previous persist, those of earlier iterations included,
\* and leaves commit_callbacks_ empty
GroupCommit ==
  /\ [](iter_fsyncs <= 1)
  /\ [][durable' # durable => cons_pc = "fsync" /\ iter_fsyncs = 0]_vars
  /\ [](InvokedCallbacks \o commit_callbacks_ = ConcatCallbacks(flushed))
  /\ [](cons_pc = "reset" => commit_callbacks_ = <<>>)

\* one persist step has invoked the callbacks of two buffers, the first drained in
\* an earlier iteration that did not persist
GroupCommit_Witness ==
  /\ cons_pc = "reset"
  /\ iter_fsyncs = 1
  /\ iter_carried > 0
  /\ Len(flushed) >= 2
  /\ Len(invoked) > iter_carried
  /\ \A i \in 1..Len(invoked) : invoked[i].synced = Range(flushed)

\* the states of the consumer: Created until RunTask has set run_task_, Running
\* inside the loop, Draining from the loop exit of line 104 to the end of line
\* 107, Terminated after it
LifecycleState ==
  IF cons_pc = "created" THEN "Created"
  ELSE IF cons_pc = "terminated" THEN "Terminated"
  ELSE IF exited THEN "Draining"
  ELSE "Running"

LifecycleSuccessor(s) ==
  CASE s = "Created" -> "Running"
    [] s = "Running" -> "Draining"
    [] s = "Draining" -> "Terminated"
    [] OTHER -> "none"

\* C22: the consumer moves only from Created to Running, from Running to Draining
\* and from Draining to Terminated; it reaches Terminated only after the drain and
\* the persist that follow the loop; once Terminate() has written run_task_ =
\* false, run_task_ stays false
Lifecycle ==
  /\ [][LifecycleState' # LifecycleState =>
         LifecycleState' = LifecycleSuccessor(LifecycleState)]_vars
  /\ [][LifecycleState' = "Terminated" /\ LifecycleState # "Terminated" =>
         cons_pc = "invoke" /\ iter_fsyncs = 1 /\ final_done.drained]_vars
  /\ [](LifecycleState = "Terminated" => final_done.drained /\ final_done.persisted)
  /\ [][(term_pc \in {"notify", "done"}) => ~run_task_']_vars

Lifecycle_Witness ==
  /\ LifecycleState = "Terminated"
  /\ ~run_task_
  /\ \E i \in 1..Len(invoked) : invoked[i].final
  /\ \E i \in 1..Len(invoked) : ~invoked[i].final

\* C23: as long as RunTask has not set run_task_, a call of Terminate() stays in
\* its spin: it does not return, does not write run_task_ and does not notify
\* disk_log_writer_thread_cv_; Terminate() leaves the spin only in a state where
\* run_task_ is true
TerminateWithoutStart ==
  /\ [](cons_pc = "created" => term_pc \in {"idle", "spin"})
  /\ [](cons_pc = "created" => ~run_task_ /\ ~cons_notified)
  /\ [][term_pc = "spin" /\ term_pc' # "spin" => run_task_ /\ term_pc' = "set"]_vars
  /\ [][term_pc' \in {"notify", "done"} /\ term_pc' # term_pc =>
         cons_pc # "created"]_vars

\* Terminate() is spinning on a task that has not started while the serializer
\* has already enqueued
TerminateWithoutStart_Witness ==
  /\ term_pc = "spin"
  /\ cons_pc = "created"
  /\ ~run_task_
  /\ Len(enqueued) = MaxEntries

RECURSIVE SumBytes(_)
SumBytes(rs) == IF rs = <<>> THEN 0 ELSE Head(rs).bytes + SumBytes(Tail(rs))

RECURSIVE SumBuffers(_)
SumBuffers(rs) == IF rs = <<>> THEN 0 ELSE Head(rs).buffers + SumBuffers(Tail(rs))

\* C24: a record is submitted only at the end of an iteration, only with num_bytes
\* > 0 and the metrics store enabled; it carries num_bytes and num_buffers, which
\* are 0 right after.  With the store enabled the iteration has persisted once,
\* and the records so far add up to the bytes written to the file and to the
\* callbacks invoked: each persist is reported with its own counts, none twice.
MetricsRecording ==
  /\ [][records' # records =>
         /\ cons_pc = "while"
         /\ num_bytes > 0
         /\ metrics_enabled
         /\ records' = Append(records, [bytes |-> num_bytes, buffers |-> num_buffers])
         /\ num_bytes' = 0
         /\ num_buffers' = 0]_vars
  /\ [][records' # records =>
         /\ iter_fsyncs = 1
         /\ SumBytes(records') = Len(file)
         /\ SumBuffers(records') = Len(invoked)]_vars
  /\ [](~metrics_enabled => records = <<>>)

\* two persists have been reported, each with its own bytes and callbacks
MetricsRecording_Witness ==
  /\ Len(records) >= 2
  /\ records[1].buffers > 0
  /\ records[2].buffers > 0

IsSuffix(s, t) == Len(s) <= Len(t) /\ SubSeq(t, Len(t) - Len(s) + 1, Len(t)) = s

\* C25: a buffer is appended to the empty queue only by the consumer, after
\* FlushBuffer has written its staged bytes and the callbacks of its entry have
\* been appended to commit_callbacks_; no buffer on the empty queue, and no buffer
\* the serializer has just obtained from it, holds unwritten bytes
RecycleAfterFlush ==
  /\ [](\A i \in 1..Len(empty_buffer_queue_) : buffers_[empty_buffer_queue_[i]] = <<>>)
  /\ [](prod_pc = "fill" => buffers_[prod_buf] = <<>>)
  /\ [][Len(empty_buffer_queue_') > Len(empty_buffer_queue_) =>
         /\ cons_pc = "recycle"
         /\ empty_buffer_queue_' = Append(empty_buffer_queue_, logs.buf)
         /\ buffers_[logs.buf] = <<>>
         /\ flushed # <<>>
         /\ flushed[Len(flushed)] = logs.id
         /\ IsSuffix(produced[logs.id].bytes, file)
         /\ IsSuffix(logs.cbs, commit_callbacks_)]_vars

\* ... and this before the fsync that covers its bytes: every buffer is back on
\* the empty queue while nothing that was flushed is durable yet
RecycleAfterFlush_Witness ==
  /\ Len(empty_buffer_queue_) = NumBuffers
  /\ flushed # <<>>
  /\ durable = {}
  /\ iter_fsyncs = 0


\* the least of a non-empty set of costs
LeastCost(S) == CHOOSE x \in S : \A y \in S : x <= y

StoredCostIsLeast ==
  \A k \in OutputProps :
    hash_offered[k] # {} =>
      /\ lowest_cost_table_[k].present
      /\ lowest_cost_table_[k].cost = LeastCost(hash_offered[k])

LowestCostKeptWhileKeyed ==
  /\ [](\A k \in OutputProps :
          lowest_cost_table_[k].present /\ lost_nodes = {} =>
            lowest_cost_table_[k].cost = LeastCost(hash_offered[k]))
  /\ [][lost_nodes' = {} =>
          \A k \in OutputProps :
            lowest_cost_table_[k].present /\ lowest_cost_table_'[k] # lowest_cost_table_[k]
              => /\ hash_last'.key = k
                 /\ hash_last'.cost < lowest_cost_table_[k].cost
                 /\ lowest_cost_table_'[k].cost = hash_last'.cost]_vars

\* the PropertySet objects lowest_cost_table_ points to
ReferencedByTable ==
  UNION {Range(e.inputs) \cup {e.key} :
           e \in {lowest_cost_table_[k] : k \in {j \in OutputProps : lowest_cost_table_[j].present}}
                    \cup lost_nodes}

\* C27: SetLocalHashTable stores the winning inputs.  After a call that replaced
\* an entry because its cost was strictly lower, the entry holds the
\* input-properties list passed in that call and the property sets deleted are
\* those of the replaced entry; after a call that found an entry and did not
\* replace it, the property sets deleted are the ones passed in; and no property
\* set that lowest_cost_table_ still refers to has been deleted.
StoresWinningInputs ==
  /\ hash_last.called /\ hash_last.replaced =>
       /\ lowest_cost_table_[hash_last.key].inputs = hash_last.passed
       /\ Tail(hash_last.freed) = hash_last.stored_before
  /\ hash_last.called /\ hash_last.found /\ ~hash_last.replaced =>
       Tail(hash_last.freed) = hash_last.passed
  /\ ReferencedByTable \cap deleted = {}


====
